---------------------------- MODULE Spec2Model ----------------------------
(***************************************************************************)
(* A model of app.py, the Streamlit front-end of SMILES_visualizer.        *)
(*                                                                         *)
(* One script run (one pass of app.py from top to bottom, which Streamlit  *)
(* performs on page load and after every widget interaction) is one        *)
(* action.  The cheminformatics toolkit and the HTTP library are modelled  *)
(* by what the script observes of them: a table of parse results, a        *)
(* nondeterministic embedding outcome, a nondeterministic HTTP outcome.    *)
(*                                                                         *)
(* Conventions.  An optional value (Python None or a value) is a tuple of  *)
(* length 0 or 1.  A Python float is an integer count of thousandths       *)
(* (descriptors) or of hundred-thousandths (coordinates).  A text is a     *)
(* sequence of one-character strings.  The result of a call that may       *)
(* raise is a record [exc, val].                                           *)
(***************************************************************************)
EXTENDS Integers, Sequences, FiniteSets, TLC

VARIABLES
    session_state,   \* st.session_state: a function on the keys present
    smiles_input,    \* value of the "Enter a SMILES string:" text input
    input_default,   \* the default the text input on the page was built with
    selected_style,  \* value of the style radio
    run,             \* the interaction that caused the last script run, by name
    out,             \* what the last script run put on the page
    xyz_source,      \* history: the SMILES the stored coordinate text came from
    written_together,\* history: both session fields last written by one run
    arg,             \* pure-function harness: the argument drawn
    ret              \* pure-function harness: the value returned

vars == <<session_state, smiles_input, input_default, selected_style, run, out,
          xyz_source, written_together, arg, ret>>

appvars == <<session_state, smiles_input, input_default, selected_style, run,
             out, xyz_source, written_together>>

-----------------------------------------------------------------------------
(* Python values *)

None == <<>>
Some(x) == <<x>>
IsNone(o) == o = <<>>
Val(o) == o[1]

Ret(v) == [exc |-> "none", val |-> v]
Raise(e) == [exc |-> e, val |-> None]

Abs(n) == IF n < 0 THEN -n ELSE n

\* Rounding of a value held as an integer to a multiple of step: nearest,
\* ties to even (a tie of the decimal value; the binary float behind it is
\* not modelled).
RoundToStep(x, step) ==
    LET q == x \div step
        r == x % step
    IN  IF 2 * r < step THEN q * step
        ELSE IF 2 * r > step THEN (q + 1) * step
        ELSE IF q % 2 = 0 THEN q * step ELSE (q + 1) * step

\* round(x, 1) and round(x, 2) on a descriptor float held in thousandths.
Round1(x) == RoundToStep(x, 100)
Round2(x) == RoundToStep(x, 10)

DigitChar(d) == <<"0", "1", "2", "3", "4", "5", "6", "7", "8", "9">>[d + 1]

RECURSIVE FormatInt(_)
\* f"{n}" for a non-negative int
FormatInt(n) ==
    IF n < 10 THEN <<DigitChar(n)>>
    ELSE FormatInt(n \div 10) \o <<DigitChar(n % 10)>>

\* f"{v:.4f}" for a float held in hundred-thousandths: the sign of the value
\* (kept when the magnitude rounds to zero), the integer part, a point and
\* four digits.
FormatF4(v) ==
    LET r == RoundToStep(Abs(v), 10) \div 10
        ip == r \div 10000
        fp == r % 10000
    IN  (IF v < 0 THEN <<"-">> ELSE <<>>)
        \o FormatInt(ip) \o <<".">>
        \o <<DigitChar(fp \div 1000), DigitChar((fp \div 100) % 10),
             DigitChar((fp \div 10) % 10), DigitChar(fp % 10)>>

RECURSIVE Join(_, _)
\* sep.join(lines)
Join(sep, lines) ==
    IF lines = <<>> THEN <<>>
    ELSE IF Len(lines) = 1 THEN lines[1]
    ELSE lines[1] \o sep \o Join(sep, Tail(lines))

\* an element symbol as text
SymbolText(sym) ==
    CASE sym = "C" -> <<"C">>
      [] sym = "O" -> <<"O">>
      [] sym = "N" -> <<"N">>
      [] sym = "H" -> <<"H">>
      [] sym = "Cl" -> <<"C", "l">>

CommentLine ==
    <<"G", "e", "n", "e", "r", "a", "t", "e", "d", " ", "b", "y", " ",
      "R", "D", "K", "i", "t">>

-----------------------------------------------------------------------------
(* The toolkit, as the script sees it *)

\* A molecule handle: its heavy atoms in input order, each with the number of
\* hydrogens AddHs attaches to it, and the descriptor values the toolkit
\* reports for it.
Atom(sym, hs) == [sym |-> sym, hs |-> hs]

Mol(atoms, wt, logp, hbd, hba, tpsa, mr, rings, rot, withHs) ==
    [atoms |-> atoms, MolWt |-> wt, MolLogP |-> logp, NumHDonors |-> hbd,
     NumHAcceptors |-> hba, TPSA |-> tpsa, MolMR |-> mr, NumRings |-> rings,
     NumRotatableBonds |-> rot, explicitHs |-> withHs]

default_smiles == "Oc1ccccc1"
InvalidSmiles == "not a molecule"
\* Stands for a parseable input on which the embedding can fail: a bridged
\* bicycle with stereo labels at both bridgeheads.  EmbedMolecule reports a
\* failure by returning -1, which line 14 discards.
StrainedSmiles == "C1C[C@H]2CC[C@H]1C2"

\* What the user may type.
SmilesInputs == {"", default_smiles, StrainedSmiles, InvalidSmiles}

\* Chem.MolFromSmiles: None for a string outside the grammar; the empty
\* string parses to a molecule with no atoms.
MolFromSmiles(smiles) ==
    CASE smiles = "" ->
           Some(Mol(<<>>, 0, 0, 0, 0, 0, 0, 0, 0, FALSE))
      [] smiles = default_smiles ->
           Some(Mol(<<Atom("O", 1), Atom("C", 0), Atom("C", 1), Atom("C", 1),
                      Atom("C", 1), Atom("C", 1), Atom("C", 1)>>,
                    94113, 1392, 1, 1, 20230, 28107, 1, 0, FALSE))
      [] smiles = StrainedSmiles ->
           Some(Mol(<<Atom("C", 2), Atom("C", 2), Atom("C", 1), Atom("C", 2),
                      Atom("C", 2), Atom("C", 1), Atom("C", 2)>>,
                    96173, 2196, 0, 0, 0, 30015, 2, 0, FALSE))
      [] OTHER -> None

RECURSIVE HydrogensOf(_)
HydrogensOf(atoms) ==
    IF atoms = <<>> THEN <<>>
    ELSE [i \in 1..atoms[1].hs |-> Atom("H", 0)] \o HydrogensOf(Tail(atoms))

\* Chem.AddHs: the hydrogens become atoms of their own, after the heavy
\* atoms, in the order of the atoms that carry them.
AddHs(mol) ==
    [mol EXCEPT !.atoms = [i \in 1..Len(mol.atoms) |-> Atom(mol.atoms[i].sym, 0)]
                            \o HydrogensOf(mol.atoms),
                !.explicitHs = TRUE]

GetNumAtoms(mol) == Len(mol.atoms)

\* The number of distinct conformations an embedding of one molecule may
\* return (the script fixes no random seed).
NumConfs == 2

\* AllChem.EmbedMolecule followed by GetConformer: 0 stands for a failed
\* embedding (no conformer, so GetConformer raises ValueError), k > 0 for the
\* k-th conformation.  A molecule without atoms is never embedded.
EmbedOutcomes(smiles) ==
    CASE smiles = "" -> {0}
      [] smiles = StrainedSmiles -> 0..NumConfs
      [] OTHER -> 1..NumConfs

\* conf.GetAtomPosition(i) of conformation k, in hundred-thousandths: spread
\* over both signs, with z small enough to round to zero.
GetAtomPosition(k, i) ==
    [x |-> ((i * 7919 + k * 104729) % 600001) - 300000,
     y |-> ((i * i * 4001 + k * 577) % 400001) - 200000,
     z |-> ((i * 31 + k * 7) % 11) - 5]

-----------------------------------------------------------------------------
(* smiles_to_xyz, app.py lines 9-25 *)

\* A text whose atom loop stops one atom short.
XyzLinesOneShort(mol, k) ==
    <<FormatInt(GetNumAtoms(mol)), CommentLine>>
    \o [i \in 1..(GetNumAtoms(mol) - 1) |->
          LET pos == GetAtomPosition(k, i - 1)
          IN  SymbolText(mol.atoms[i].sym) \o <<" ">> \o FormatF4(pos.x)
              \o <<" ">> \o FormatF4(pos.y) \o <<" ">> \o FormatF4(pos.z)]

\* Lines 17-25: the text of a hydrogen-added molecule and a conformation.
XyzLines(mol, k) ==
    <<FormatInt(GetNumAtoms(mol)), CommentLine>>
    \o [i \in 1..GetNumAtoms(mol) |->
          LET pos == GetAtomPosition(k, i - 1)
          IN  SymbolText(mol.atoms[i].sym) \o <<" ">> \o FormatF4(pos.x)
              \o <<" ">> \o FormatF4(pos.y) \o <<" ">> \o FormatF4(pos.z)]

\* Lines 13-25 on a parsed molecule; embed = 0 makes GetConformer raise.
XyzOfMol(mol, embed) ==
    LET withHs == AddHs(mol)
    IN  IF embed = 0 THEN Raise("ValueError")
        ELSE Ret(Some(Join(<<"\n">>, XyzLines(withHs, embed))))

smiles_to_xyz(smiles, embed) ==
    LET mol == MolFromSmiles(smiles)
    IN  IF IsNone(mol) THEN Ret(None) ELSE XyzOfMol(Val(mol), embed)

-----------------------------------------------------------------------------
(* calculate_properties and evaluate_drug_likeness, app.py lines 28-66 *)

\* A Python dict with string keys, as the sequence of its items in insertion
\* order.
HasKey(dict, key) == \E i \in 1..Len(dict) : dict[i][1] = key
Item(dict, key) == dict[CHOOSE i \in 1..Len(dict) : dict[i][1] = key][2]
Keys(dict) == [i \in 1..Len(dict) |-> dict[i][1]]

\* Lines 32-43.
PropertiesOfMol(mol) ==
    << <<"Molecular Weight (g/mol)", Round1(mol.MolWt)>>,
       <<"Heavy Atoms", Len(mol.atoms)>>,
       <<"Rings", mol.NumRings>>,
       <<"Rotatable Bonds", mol.NumRotatableBonds>>,
       <<"HB Acceptors", mol.NumHAcceptors>>,
       <<"HB Donors", mol.NumHDonors>>,
       <<"Topo. Polar Surface Area", Round2(mol.TPSA)>>,
       <<"Mol Refractivity", Round2(mol.MolMR)>>,
       <<"clogP", Round2(mol.MolLogP)>> >>

calculate_properties(smiles) ==
    LET mol == MolFromSmiles(smiles)
    IN  IF IsNone(mol) THEN None ELSE Some(PropertiesOfMol(Val(mol)))

\* The Lipinski thresholds of lines 59-62, in the units of the values they
\* bound (thousandths for the two floats).
MaxWeight == 500000
MaxLogP == 5000
MaxDonors == 5
MaxAcceptors == 10

\* A check made on the values as the descriptor table displays them.
DrugLikenessOnRounded(mol) ==
    << <<"Rule of Five Pass",
         /\ Round1(mol.MolWt) <= MaxWeight
         /\ Round2(mol.MolLogP) <= MaxLogP
         /\ mol.NumHDonors <= MaxDonors
         /\ mol.NumHAcceptors <= MaxAcceptors>>,
       <<"Molecular Weight", mol.MolWt>>,
       <<"LogP", mol.MolLogP>>,
       <<"H-bond Donors", mol.NumHDonors>>,
       <<"H-bond Acceptors", mol.NumHAcceptors>> >>

\* Lines 50-66.
DrugLikenessOfMol(mol) ==
    LET properties ==
            << <<"Molecular Weight", mol.MolWt>>,
               <<"LogP", mol.MolLogP>>,
               <<"H-bond Donors", mol.NumHDonors>>,
               <<"H-bond Acceptors", mol.NumHAcceptors>> >>
    IN  << <<"Rule of Five Pass",
             /\ Item(properties, "Molecular Weight") <= MaxWeight
             /\ Item(properties, "LogP") <= MaxLogP
             /\ Item(properties, "H-bond Donors") <= MaxDonors
             /\ Item(properties, "H-bond Acceptors") <= MaxAcceptors>> >>
        \o properties

evaluate_drug_likeness(smiles) ==
    LET mol == MolFromSmiles(smiles)
    IN  IF IsNone(mol) THEN None ELSE Some(DrugLikenessOfMol(Val(mol)))

-----------------------------------------------------------------------------
(* The HTTP library and JSON, as the script sees them *)

\* A decoded JSON value: a tag and a payload.  An object's payload is a dict
\* (items in order), an array's a sequence of values.
JNull == [t |-> "null", v |-> <<>>]
JNum(n) == [t |-> "num", v |-> <<n>>]
JStr(s) == [t |-> "str", v |-> <<s>>]
JList(xs) == [t |-> "list", v |-> xs]
JObj(items) == [t |-> "dict", v |-> items]

\* key in data.  The strings of JsonBodies contain the key only by being it.
PyIn(key, data) ==
    CASE data.t = "dict" -> Ret(HasKey(data.v, key))
      [] data.t = "list" ->
           Ret(\E i \in 1..Len(data.v) : data.v[i].t = "str" /\ data.v[i].v = <<key>>)
      [] data.t = "str" -> Ret(data.v = <<key>>)
      [] OTHER -> Raise("TypeError")

\* data[key]
PyGetItem(data, key) ==
    CASE data.t = "dict" ->
           IF HasKey(data.v, key) THEN Ret(Item(data.v, key)) ELSE Raise("KeyError")
      [] OTHER -> Raise("TypeError")

\* data.get(key, default): a method of dicts only
PyGet(data, key, default) ==
    CASE data.t = "dict" ->
           Ret(IF HasKey(data.v, key) THEN Item(data.v, key) ELSE default)
      [] OTHER -> Raise("AttributeError")

\* bool(x)
Truthy(x) ==
    CASE x.t = "null" -> FALSE
      [] x.t = "num" -> x.v /= <<0>>
      [] x.t = "str" -> x.v /= <<"">>
      [] OTHER -> x.v /= <<>>

\* The bodies a response is drawn from (a sequence: the values are of
\* different shapes).
JsonBodies ==
    << JNull, JNum(5), JStr("IdentifierList"), JStr("error"),
       JList(<<>>), JList(<<JStr("IdentifierList")>>),
       JObj(<<>>),
       JObj(<< <<"Fault", JObj(<< <<"Code", JStr("error")>> >>)>> >>),
       JObj(<< <<"IdentifierList", JNull>> >>),
       JObj(<< <<"IdentifierList", JList(<<JNum(2244)>>)>> >>),
       JObj(<< <<"IdentifierList", JObj(<<>>)>> >>),
       JObj(<< <<"IdentifierList", JObj(<< <<"CID", JList(<<>>)>> >>)>> >>),
       JObj(<< <<"IdentifierList", JObj(<< <<"CID", JList(<<JNum(996)>>)>> >>)>> >>),
       JObj(<< <<"ld50", JNum(317)>>, <<"toxicity_class", JNum(4)>> >>) >>

\* What one request can come to: no response at all (net names the
\* exception), or a response with a status and a body that decodes to JSON
\* (Some) or does not (None).
Http(net, status, body) == [net |-> net, status |-> status, body |-> body]

HttpOutcomes ==
    << Http("ConnectionError", 0, None), Http("Timeout", 0, None),
       Http("ok", 200, None), Http("ok", 404, None), Http("ok", 500, None),
       Http("ok", 500, Some(JObj(<<>>))) >>
    \o [i \in 1..Len(JsonBodies) |-> Http("ok", 200, Some(JsonBodies[i]))]

\* The outcomes the session model draws from, one for each way the existence
\* lookup can end: request failed, not found, found, exception.
SessionHttp ==
    << Http("ConnectionError", 0, None), Http("ok", 500, None),
       Http("ok", 200, Some(JObj(<<>>))),
       Http("ok", 200,
            Some(JObj(<< <<"IdentifierList",
                           JObj(<< <<"CID", JList(<<JNum(996)>>)>> >>)>> >>))),
       Http("ok", 200, Some(JObj(<< <<"IdentifierList", JNull>> >>))) >>

\* requests.get / requests.post, response.raise_for_status(), response.json():
\* the decoded body, or the exception raised on the way, every one of them a
\* requests.exceptions.RequestException.
FetchJson(http) ==
    IF http.net /= "ok" THEN Raise(http.net)
    ELSE IF http.status >= 400 /\ http.status < 600 THEN Raise("HTTPError")
    ELSE IF IsNone(http.body) THEN Raise("JSONDecodeError")
    ELSE Ret(Val(http.body))

RequestExceptions == {"ConnectionError", "Timeout", "HTTPError", "JSONDecodeError"}

-----------------------------------------------------------------------------
(* predict_toxicity, app.py lines 69-85 *)

\* `except Exception` catches whatever the try block raises.
predict_toxicity(smiles, http) ==
    LET fetched == FetchJson(http)
        data == fetched.val
        ld50 == PyGet(data, "ld50", JStr("N/A"))
        class == PyGet(data, "toxicity_class", JStr("N/A"))
        pred == PyGet(data, "toxicity_prediction", JStr("N/A"))
    IN  IF fetched.exc /= "none"
        THEN << <<"Error", JStr("Failed to fetch toxicity data: " \o fetched.exc)>> >>
        ELSE IF ld50.exc /= "none"
        THEN << <<"Error", JStr("Failed to fetch toxicity data: " \o ld50.exc)>> >>
        ELSE << <<"LD50 (mg/kg)", ld50.val>>,
                <<"Toxicity Class", class.val>>,
                <<"Toxicity Prediction", pred.val>> >>

-----------------------------------------------------------------------------
(* check_molecule_in_pubchem, app.py lines 87-114 *)

FoundMessage == "Molecule found in PubChem."
NotFoundMessage == "Molecule not found in PubChem."
FormatMessage == "Unexpected API response format."
FailedMessage(e) == "API request failed: " \o e

\* Lines 105-109: the body of the try block once the response is decoded.
\* The right operand of `and` is evaluated only when the left one is true.
IdentifierCheck(data) ==
    LET has == PyIn("IdentifierList", data)
        list == PyGetItem(data, "IdentifierList")
        cid == PyGet(list.val, "CID", JNull)
    IN  IF has.exc /= "none" THEN Raise(has.exc)
        ELSE IF ~has.val THEN Ret(<<FALSE, NotFoundMessage>>)
        ELSE IF list.exc /= "none" THEN Raise(list.exc)
        ELSE IF cid.exc /= "none" THEN Raise(cid.exc)
        ELSE IF Truthy(cid.val) THEN Ret(<<TRUE, FoundMessage>>)
        ELSE Ret(<<FALSE, NotFoundMessage>>)

\* Lines 98-114: the two except clauses catch RequestException and KeyError;
\* any other exception leaves the function.
check_molecule_in_pubchem(smiles, http) ==
    LET fetched == FetchJson(http)
        checked == IdentifierCheck(fetched.val)
    IN  IF fetched.exc /= "none" THEN Ret(<<FALSE, FailedMessage(fetched.exc)>>)
        ELSE IF checked.exc \in RequestExceptions
        THEN Ret(<<FALSE, FailedMessage(checked.exc)>>)
        ELSE IF checked.exc = "KeyError" THEN Ret(<<FALSE, FormatMessage>>)
        ELSE checked

-----------------------------------------------------------------------------
(* The script, app.py lines 117-209 *)

SetItem(dict, key, value) ==
    [k \in DOMAIN dict \cup {key} |-> IF k = key THEN value ELSE dict[k]]

EmptySession == [k \in {} |-> None]

\* Lines 118-121.
InitSession(ss) ==
    LET ss1 == IF "smiles" \notin DOMAIN ss THEN SetItem(ss, "smiles", "") ELSE ss
    IN  IF "xyz_content" \notin DOMAIN ss1 THEN SetItem(ss1, "xyz_content", None)
        ELSE ss1

\* st.session_state.get(key, default)
SessionGet(ss, key, default) == IF key \in DOMAIN ss THEN ss[key] ELSE default

\* Line 129: the default handed to the text input.
InputDefault(ss) == SessionGet(ss, "smiles", default_smiles)

\* Line 129: st.text_input.  A widget built with the default of the widget
\* already on the page keeps that widget's value; one built with another
\* default is a new widget and shows its default.
TextInput(built_with, value, default) ==
    IF built_with = Some(default) THEN value ELSE default

\* Lines 132-137.
StyleNames == <<"Ball and Stick", "Stick", "Spacefill">>
style_options(name) ==
    CASE name = "Ball and Stick" -> {"stick", "sphere 0.5"}
      [] name = "Stick" -> {"stick"}
      [] name = "Spacefill" -> {"sphere"}

\* A handler that stores the input before it looks at the parse result.
HandlerStoresUnparsed(ss, pressed, input, embed) ==
    IF ~pressed THEN [ss |-> ss, error |-> FALSE, exc |-> "none", wrote |-> {}]
    ELSE IF IsNone(MolFromSmiles(input))
    THEN [ss |-> SetItem(ss, "smiles", input), error |-> TRUE, exc |-> "none",
          wrote |-> {"smiles"}]
    ELSE LET xyz == smiles_to_xyz(input, embed)
         IN  IF xyz.exc /= "none"
             THEN [ss |-> SetItem(ss, "smiles", input), error |-> FALSE,
                   exc |-> xyz.exc, wrote |-> {"smiles"}]
             ELSE [ss |-> SetItem(SetItem(ss, "smiles", input), "xyz_content", xyz.val),
                   error |-> FALSE, exc |-> "none",
                   wrote |-> {"smiles", "xyz_content"}]

\* A handler that is not behind the button: every run regenerates.
HandlerOnEveryRun(ss, pressed, input, embed) ==
    IF IsNone(MolFromSmiles(input))
    THEN [ss |-> ss, error |-> TRUE, exc |-> "none", wrote |-> {}]
    ELSE LET xyz == smiles_to_xyz(input, IF pressed THEN embed ELSE 1)
         IN  IF xyz.exc /= "none"
             THEN [ss |-> SetItem(ss, "smiles", input), error |-> FALSE,
                   exc |-> xyz.exc, wrote |-> {"smiles"}]
             ELSE [ss |-> SetItem(SetItem(ss, "smiles", input), "xyz_content", xyz.val),
                   error |-> FALSE, exc |-> "none",
                   wrote |-> {"smiles", "xyz_content"}]

\* Lines 140-146: the Visualize handler.  wrote names the session keys it
\* assigned; exc an exception that ended the run.
Handler(ss, pressed, input, embed) ==
    IF ~pressed THEN [ss |-> ss, error |-> FALSE, exc |-> "none", wrote |-> {}]
    ELSE IF IsNone(MolFromSmiles(input))
    THEN [ss |-> ss, error |-> TRUE, exc |-> "none", wrote |-> {}]
    ELSE LET ss1 == SetItem(ss, "smiles", input)
             xyz == smiles_to_xyz(input, embed)
         IN  IF xyz.exc /= "none"
             THEN [ss |-> ss1, error |-> FALSE, exc |-> xyz.exc,
                   wrote |-> {"smiles"}]
             ELSE [ss |-> SetItem(ss1, "xyz_content", xyz.val), error |-> FALSE,
                   exc |-> "none", wrote |-> {"smiles", "xyz_content"}]

\* Line 149: both session fields truthy.
RenderGuard(ss) ==
    /\ ss["smiles"] /= ""
    /\ ~IsNone(ss["xyz_content"])
    /\ Val(ss["xyz_content"]) /= <<>>

\* What a run that renders nothing below the widgets leaves on the page.
Blank ==
    [rendered |-> FALSE, image |-> None, view |-> None, download |-> None,
     properties |-> None, properties_error |-> FALSE, drug_likeness |-> None,
     coming_soon |-> FALSE, toxicity_calls |-> 0, pubchem_calls |-> 0,
     pubchem |-> None, exc |-> "none"]

\* A toxicity step that makes the lookup (what the placeholder stands for).
ToxicityStepInvokes(smiles, http) ==
    [coming_soon |-> FALSE, calls |-> 1, shown |-> Some(predict_toxicity(smiles, http))]

\* Lines 200-201: a placeholder is written; predict_toxicity is not called.
ToxicityStep(smiles, http) ==
    [coming_soon |-> TRUE, calls |-> 0, shown |-> None]

\* Lines 150-209, reached when the guard holds.  http is what the one GET of
\* check_molecule_in_pubchem comes to.
RenderPass(ss, style, http) ==
    LET smiles == ss["smiles"]
        xyz_content == Val(ss["xyz_content"])
        properties == calculate_properties(smiles)
        drug_likeness == evaluate_drug_likeness(smiles)
        toxicity == ToxicityStep(smiles, http)
        looked == check_molecule_in_pubchem(smiles, http)
    IN  [rendered |-> TRUE,
         image |-> Some(smiles),
         view |-> Some([model |-> xyz_content, style |-> style_options(style)]),
         download |-> Some([data |-> xyz_content, file_name |-> "molecule.xyz",
                            mime |-> "text/plain"]),
         properties |-> properties,
         properties_error |-> IsNone(properties),
         drug_likeness |-> drug_likeness,
         coming_soon |-> toxicity.coming_soon,
         toxicity_calls |-> toxicity.calls,
         pubchem_calls |-> 1,
         pubchem |-> IF looked.exc = "none"
                     THEN Some(<<IF looked.val[1] THEN "success" ELSE "error",
                                 looked.val[2]>>)
                     ELSE None,
         exc |-> looked.exc]

\* A run that stops at the invalid-SMILES error.
ScriptRunStopsOnError(ss0, built_with, value, style, pressed, embed, http) ==
    LET ss1 == InitSession(ss0)
        default == InputDefault(ss1)
        input == TextInput(built_with, value, default)
        handled == Handler(ss1, pressed, input, embed)
        page == IF handled.exc /= "none" THEN [Blank EXCEPT !.exc = handled.exc]
                ELSE IF RenderGuard(handled.ss) /\ ~handled.error
                THEN RenderPass(handled.ss, style, http)
                ELSE Blank
    IN  [ss |-> handled.ss, input |-> input, default |-> default,
         error |-> handled.error, wrote |-> handled.wrote, page |-> page]

\* One run of the script: the widgets, the handler, then the guarded render.
\* An exception in the handler ends the run before line 149.
ScriptRun(ss0, built_with, value, style, pressed, embed, http) ==
    LET ss1 == InitSession(ss0)
        default == InputDefault(ss1)
        input == TextInput(built_with, value, default)
        handled == Handler(ss1, pressed, input, embed)
        page == IF handled.exc /= "none" THEN [Blank EXCEPT !.exc = handled.exc]
                ELSE IF RenderGuard(handled.ss)
                THEN RenderPass(handled.ss, style, http)
                ELSE Blank
    IN  [ss |-> handled.ss, input |-> input, default |-> default,
         error |-> handled.error, wrote |-> handled.wrote, page |-> page]

-----------------------------------------------------------------------------
(* The session: one action per interaction that makes Streamlit run the    *)
(* script                                                                  *)

\* A new session, before the script has run: no session keys, no widgets.
AppInit ==
    /\ session_state = EmptySession
    /\ smiles_input = ""
    /\ input_default = None
    /\ selected_style = StyleNames[1]
    /\ run = "none"
    /\ out = [error |-> FALSE, page |-> Blank]
    /\ xyz_source = None
    /\ written_together = TRUE

Init ==
    /\ AppInit
    /\ arg = None
    /\ ret = None

\* The state a script run leaves, with the history variables brought up to
\* date.
Finish(event, style, r) ==
    /\ session_state' = r.ss
    /\ smiles_input' = r.input
    /\ input_default' = Some(r.default)
    /\ selected_style' = style
    /\ run' = event
    /\ out' = [error |-> r.error, page |-> r.page]
    /\ xyz_source' = IF "xyz_content" \in r.wrote THEN Some(r.input) ELSE xyz_source
    /\ written_together' = IF r.wrote = {} THEN written_together
                           ELSE r.wrote = {"smiles", "xyz_content"}
    /\ UNCHANGED <<arg, ret>>

PageLoaded == run /= "none"

\* The first run of a session.
Load ==
    /\ ~PageLoaded
    /\ \E h \in 1..Len(SessionHttp) :
         Finish("load", selected_style,
                ScriptRun(session_state, input_default, smiles_input,
                          selected_style, FALSE, 0, SessionHttp[h]))

\* The user replaces the text of the input and leaves the field.
EditText ==
    /\ PageLoaded
    /\ \E typed \in SmilesInputs \ {smiles_input}, h \in 1..Len(SessionHttp) :
         Finish("edit", selected_style,
                ScriptRun(session_state, input_default, typed,
                          selected_style, FALSE, 0, SessionHttp[h]))

\* The user picks another style.
SelectStyle ==
    /\ PageLoaded
    /\ \E i \in 1..Len(StyleNames), h \in 1..Len(SessionHttp) :
         /\ StyleNames[i] /= selected_style
         /\ Finish("style", StyleNames[i],
                   ScriptRun(session_state, input_default, smiles_input,
                             StyleNames[i], FALSE, 0, SessionHttp[h]))

\* The user presses Visualize.
PressVisualize ==
    /\ PageLoaded
    /\ \E embed \in 0..NumConfs, h \in 1..Len(SessionHttp) :
         LET r == ScriptRun(session_state, input_default, smiles_input,
                            selected_style, TRUE, embed, SessionHttp[h])
         IN  /\ embed \in EmbedOutcomes(r.input)
             /\ Finish("visualize", selected_style, r)

\* The user presses the download button, which is on the page only when the
\* last run put it there.
ClickDownload ==
    /\ PageLoaded
    /\ ~IsNone(out.page.download)
    /\ \E h \in 1..Len(SessionHttp) :
         Finish("download", selected_style,
                ScriptRun(session_state, input_default, smiles_input,
                          selected_style, FALSE, 0, SessionHttp[h]))

Next == Load \/ EditText \/ SelectStyle \/ PressVisualize \/ ClickDownload

Spec == Init /\ [][Next]_vars

-----------------------------------------------------------------------------
(* The functions on their own: an argument is drawn, one call is made *)

\* How far around each Lipinski threshold the descriptor values are drawn.
Spread == 2
\* The heavy atoms of the molecules drawn for smiles_to_xyz.
MaxHeavy == 4

\* Weights a quarter of a rounding step apart and partition coefficients
\* four tenths of one apart, so that some round onto the threshold.
WeightSamples == { MaxWeight + d * 25 : d \in -Spread..Spread }
LogPSamples == { MaxLogP + d * 4 : d \in -Spread..Spread }
DonorSamples == { MaxDonors + d : d \in -1..1 }
AcceptorSamples == { MaxAcceptors + d : d \in -1..1 }

DrugInit ==
    /\ AppInit
    /\ \E wt \in WeightSamples, logp \in LogPSamples, hbd \in DonorSamples,
          hba \in AcceptorSamples :
         arg = Mol(<<Atom("C", 3)>>, wt, logp, hbd, hba, 0, 0, 0, 0, FALSE)
    /\ ret = None

DrugCall ==
    /\ IsNone(ret)
    /\ ret' = Some(DrugLikenessOfMol(arg))
    /\ UNCHANGED <<arg, appvars>>

SpecDrug == DrugInit /\ [][DrugCall]_vars

AtomKinds == {Atom("C", 3), Atom("C", 2), Atom("O", 1), Atom("N", 2), Atom("Cl", 0)}

HeavyAtomLists == UNION { [1..n -> AtomKinds] : n \in 0..MaxHeavy }

\* A molecule without atoms has no embedding.
XyzInit ==
    /\ AppInit
    /\ \E atoms \in HeavyAtomLists, embed \in 0..NumConfs :
         /\ atoms = <<>> => embed = 0
         /\ arg = [mol |-> Mol(atoms, 0, 0, 0, 0, 0, 0, 0, 0, FALSE),
                   embed |-> embed]
    /\ ret = None

XyzCall ==
    /\ IsNone(ret)
    /\ ret' = Some(XyzOfMol(arg.mol, arg.embed))
    /\ UNCHANGED <<arg, appvars>>

SpecXyz == XyzInit /\ [][XyzCall]_vars

LookupInit ==
    /\ AppInit
    /\ \E smiles \in SmilesInputs, h \in 1..Len(HttpOutcomes) :
         arg = [smiles |-> smiles, http |-> HttpOutcomes[h]]
    /\ ret = None

LookupCall ==
    /\ IsNone(ret)
    /\ ret' = Some(check_molecule_in_pubchem(arg.smiles, arg.http))
    /\ UNCHANGED <<arg, appvars>>

SpecLookup == LookupInit /\ [][LookupCall]_vars

-----------------------------------------------------------------------------
(* Properties of the session *)

Smiles == session_state["smiles"]
XyzContent == session_state["xyz_content"]
Page == out.page

\* The page shows no table and offers no download.
NothingBelowWidgets ==
    /\ IsNone(Page.properties)
    /\ IsNone(Page.drug_likeness)
    /\ IsNone(Page.download)

\* The page shows both tables and the download of the session's molecule.
SessionMoleculeShown ==
    /\ Page.properties = calculate_properties(Smiles)
    /\ ~IsNone(Page.properties)
    /\ Page.drug_likeness = evaluate_drug_likeness(Smiles)
    /\ ~IsNone(Page.drug_likeness)
    /\ ~IsNone(Page.download)
    /\ Val(Page.download).data = Val(XyzContent)

\* C1: a Visualize run whose input does not parse leaves both session
\* fields as they were and shows the invalid-SMILES error.
C1_InvalidInputKeepsSession ==
    [][(run' = "visualize" /\ IsNone(MolFromSmiles(smiles_input')))
         => /\ session_state' = session_state
            /\ out'.error]_vars

C1_Witness ==
    /\ run = "visualize"
    /\ out.error
    /\ smiles_input = InvalidSmiles
    /\ Smiles = default_smiles
    /\ ~IsNone(XyzContent)

\* C2: the two session fields are both empty, or both set and last written
\* by one and the same Visualize run.
C2_FieldsWrittenTogether ==
    PageLoaded =>
        \/ Smiles = "" /\ IsNone(XyzContent)
        \/ Smiles /= "" /\ ~IsNone(XyzContent) /\ written_together

\* C3 as claimed: a Visualize run whose input does not parse shows the
\* error and neither table nor the download, whatever the session held.
C3_InvalidInputRendersNothing ==
    (run = "visualize" /\ out.error) => NothingBelowWidgets

\* C3 as amended: such a run shows the error; it shows neither table nor the
\* download when the session holds no molecule, and the tables and the
\* download of the session's molecule when it holds one.
C3_InvalidInputRendersSession ==
    (run = "visualize" /\ IsNone(MolFromSmiles(smiles_input))) =>
        /\ out.error
        /\ Page.rendered = RenderGuard(session_state)
        /\ ~Page.rendered => NothingBelowWidgets
        /\ Page.rendered => SessionMoleculeShown

C3_Witness ==
    /\ run = "visualize"
    /\ out.error
    /\ ~RenderGuard(session_state)
    /\ NothingBelowWidgets

C7_StyleSwitchKeepsData ==
    [][/\ (run' = "style" /\ RenderGuard(session_state)) =>
            /\ session_state' = session_state
            /\ out'.page.rendered
            /\ Val(out'.page.view).model = Val(session_state["xyz_content"])
            /\ Val(out'.page.view).style = style_options(selected_style')
            /\ out.page.rendered =>
                  /\ out'.page.properties = out.page.properties
                  /\ out'.page.drug_likeness = out.page.drug_likeness
                  /\ Val(out'.page.view).model = Val(out.page.view).model
                  /\ out'.page.download = out.page.download
       /\ (PageLoaded /\ session_state'["xyz_content"] /= session_state["xyz_content"]) =>
            /\ run' = "visualize"
            /\ ~IsNone(MolFromSmiles(smiles_input'))
            /\ xyz_source' = Some(smiles_input')]_vars

C7_Witness ==
    /\ run = "style"
    /\ Page.rendered
    /\ selected_style = "Spacefill"
    /\ Smiles = StrainedSmiles
    /\ xyz_source = Some(StrainedSmiles)

\* C9: what a run that passes the guard shows in the 3D view and offers for
\* download was generated from the session SMILES, from which the run
\* computes the image, the tables and the lookup.
C9_ViewMatchesSmiles ==
    Page.rendered =>
        /\ Page.image = Some(Smiles)
        /\ Val(Page.view).model = Val(XyzContent)
        /\ Val(Page.download).data = Val(XyzContent)
        /\ xyz_source = Some(Smiles)

\* C10: a new session shows the default molecule in the text input, and a
\* session whose Visualize succeeded shows the SMILES it validated.
C10_InputPrefilled ==
    /\ run = "load" => smiles_input = default_smiles
    /\ (run = "visualize" /\ ~out.error /\ Page.exc /= "ValueError") =>
          smiles_input = Smiles

-----------------------------------------------------------------------------
(* Properties of the functions *)

\* The response carries an identifier list with at least one identifier.
HasIdentifier(http) ==
    /\ http.net = "ok"
    /\ http.status = 200
    /\ ~IsNone(http.body)
    /\ Val(http.body).t = "dict"
    /\ HasKey(Val(http.body).v, "IdentifierList")
    /\ LET list == Item(Val(http.body).v, "IdentifierList")
       IN  /\ list.t = "dict"
           /\ HasKey(list.v, "CID")
           /\ Item(list.v, "CID").t = "list"
           /\ Item(list.v, "CID").v /= <<>>

\* C4: check_molecule_in_pubchem raises nothing; it returns a pair of a
\* boolean and a message, True only for a response with an identifier in
\* its identifier list, and False with a message for every other outcome.
C4_LookupNeverRaises ==
    ~IsNone(ret) =>
        /\ Val(ret).exc = "none"
        /\ Val(ret).val[1] <=> HasIdentifier(arg.http)
        /\ Val(ret).val[2] /= ""

\* C6: the pass flag is the conjunction of the four comparisons on the
\* values the record returns, which are the unrounded descriptor values.
C6_PassIsConjunction ==
    ~IsNone(ret) =>
        LET record == Val(ret)
        IN  /\ Keys(record) = <<"Rule of Five Pass", "Molecular Weight", "LogP",
                                "H-bond Donors", "H-bond Acceptors">>
            /\ Item(record, "Molecular Weight") = arg.MolWt
            /\ Item(record, "LogP") = arg.MolLogP
            /\ Item(record, "H-bond Donors") = arg.NumHDonors
            /\ Item(record, "H-bond Acceptors") = arg.NumHAcceptors
            /\ Item(record, "Rule of Five Pass") <=>
                  /\ Item(record, "Molecular Weight") <= 500000
                  /\ Item(record, "LogP") <= 5000
                  /\ Item(record, "H-bond Donors") <= 5
                  /\ Item(record, "H-bond Acceptors") <= 10

\* A weight just above 500 that the descriptor table shows as 500.0, every
\* other value within its threshold: the flag is False.
C6_Witness ==
    /\ ~IsNone(ret)
    /\ arg.MolWt > 500000
    /\ Round1(arg.MolWt) = 500000
    /\ arg.MolLogP <= 5000 /\ arg.NumHDonors <= 5 /\ arg.NumHAcceptors <= 10
    /\ ~Item(Val(ret), "Rule of Five Pass")

\* Reading a coordinate text back: its lines, the count on the first, the
\* first blank-separated field of an atom line.
RECURSIVE SplitOn(_, _)
SplitOn(text, sep) ==
    IF \A i \in 1..Len(text) : text[i] /= sep THEN <<text>>
    ELSE LET at == CHOOSE i \in 1..Len(text) :
                      text[i] = sep /\ \A j \in 1..(i - 1) : text[j] /= sep
         IN  <<SubSeq(text, 1, at - 1)>> \o SplitOn(SubSeq(text, at + 1, Len(text)), sep)

DigitValue(c) == CHOOSE d \in 0..9 : DigitChar(d) = c

IsNumber(chars) ==
    /\ chars /= <<>>
    /\ \A i \in 1..Len(chars) : \E d \in 0..9 : DigitChar(d) = chars[i]

RECURSIVE ParseInt(_)
ParseInt(chars) ==
    IF Len(chars) = 1 THEN DigitValue(chars[1])
    ELSE 10 * ParseInt(SubSeq(chars, 1, Len(chars) - 1)) + DigitValue(chars[Len(chars)])

FirstField(line) == SplitOn(line, " ")[1]

ReadSymbols(lines) == [i \in 1..(Len(lines) - 2) |-> FirstField(lines[i + 2])]

\* C8: the text smiles_to_xyz returns has one line for the atom count, one
\* for the comment and one for each atom of the hydrogen-added molecule;
\* read back, it gives that count and the atoms' symbols in their order.
C8_TextReadsBack ==
    (~IsNone(ret) /\ Val(ret).exc = "none") =>
        LET lines == SplitOn(Val(Val(ret).val), "\n")
            atoms == AddHs(arg.mol).atoms
        IN  /\ Len(lines) = Len(atoms) + 2
            /\ IsNumber(lines[1])
            /\ ParseInt(lines[1]) = Len(atoms)
            /\ lines[2] = CommentLine
            /\ ReadSymbols(lines) = [i \in 1..Len(atoms) |-> SymbolText(atoms[i].sym)]
            /\ \A i \in 3..Len(lines) : Len(SplitOn(lines[i], " ")) = 4

\* A text of more than nine atoms, one of them with a two-letter symbol.
C8_Witness ==
    /\ ~IsNone(ret)
    /\ Val(ret).exc = "none"
    /\ Len(AddHs(arg.mol).atoms) >= 10
    /\ arg.mol.atoms[1].sym = "Cl"

=============================================================================
